---- MODULE Spec2Model ----
(***************************************************************************)
(* A model of the synchat message relay (src/lib/cross-platform-messenger  *)
(* .ts and the realtime subscriber of src/unnamed/part_000).                *)
(*                                                                         *)
(* Telegram is the spec's platform A, Discord its platform B.  Every async *)
(* handler is a task that advances one awaited call at a time, so handlers *)
(* of different events interleave as they do on the event loop.            *)
(***************************************************************************)
EXTENDS Integers, Sequences, FiniteSets, TLC

(* ------------------------------ bounds --------------------------------- *)
\* native messages that users post, over the whole run
MaxPosts == 2
\* native edits and deletes that users perform, over the whole run
MaxChanges == 2
\* events (native or change feed) that the transport delivers a second time
MaxRedeliver == 1
\* store or platform calls that fail, over the whole run
MaxFail == 1
\* handlers in flight at the same time
MaxTasks == 2
\* characters in a username or a content the formatter is applied to
MaxLen == 2

(* ----------------------------- constants ------------------------------- *)
NULL == "null"
NoId == 0

Platforms == {"telegram", "discord"}

\* the relay's own account on each platform
BotUser == "bot"
\* accounts that post; "u1" exists on both platforms (ids are per platform)
UserIdsOf(p) == IF p = "telegram" THEN {"u1"} ELSE {"u1", "u2"}
\* a text is a sequence of characters (here: tokens); formatting concatenates
Usernames == {<<"ann">>, <<"bob">>}
Contents == {<<"a">>, <<"b">>}
BotUsername == <<"relay">>
Avatar == "av1"

\* the channels table, administered outside the engine: c1 is two-way, c2 one-way
Channels ==
  { [id |-> "c1", type |-> "two-ways", telegram_chat_id |-> "100", discord_chat_id |-> "200"],
    [id |-> "c2", type |-> "one-way",  telegram_chat_id |-> "101", discord_chat_id |-> "201"] }

\* chats the bots sit in; "109" and "209" are bound to no channel
ChatsOf(p) == IF p = "telegram" THEN {"100", "101", "109"} ELSE {"200", "201", "209"}

ChatColumn(channel, p) ==
  IF p = "discord" THEN channel.discord_chat_id ELSE channel.telegram_chat_id

ChannelById(cid) == CHOOSE c \in Channels : c.id = cid

(* ------------------------------- state --------------------------------- *)
VARIABLES
  isReady,           \* CrossPlatformMessenger.isReady
  telegramBot,       \* "null" | "running" | "stopped"
  discordBot,        \* "null" | "created" | "running" | "stopped"
  users,             \* table users:    rows [id, username, pfp, platform]
  messages,          \* table messages: rows [id, content, user_id, channel_id, modified_at, deleted_at]
  message_mappings,  \* table message_mappings: rows [discord_id, telegram_id]
  native,            \* the messages held by the two platforms
  inbox,             \* per platform, the native events not yet delivered (in order)
  feed,              \* change-feed events not yet delivered (in commit order)
  tasks,             \* handler invocations: those in flight and those that returned
  calls,             \* outbound platform operations issued so far
  clock,             \* source of new Date()
  changes,           \* native edits and deletes performed so far
  failures,          \* failed calls so far
  redelivered,       \* redeliveries so far
  limits             \* what the environment of this run may do

vars == << isReady, telegramBot, discordBot, users, messages, message_mappings,
           native, inbox, feed, tasks, calls, clock, changes, failures,
           redelivered, limits >>

storeVars == << users, messages, message_mappings >>
lifeVars == << isReady, telegramBot, discordBot, limits >>

\* What the users do in a run: they post MaxPosts messages, or one fewer and
\* then edit and delete MaxChanges times.
Loads ==
  { [ posts |-> MaxPosts, changes |-> 0 ],
    [ posts |-> MaxPosts - 1, changes |-> MaxChanges ] }

\* What disturbs such a run: nothing, failing calls, or a shutdown.
Disturbances ==
  { [ fail |-> 0, stop |-> FALSE ],
    [ fail |-> MaxFail, stop |-> FALSE ],
    [ fail |-> 0, stop |-> TRUE ] }

\* Two more disturbances go with a run of one post fewer and one change fewer:
\* redeliveries, and a Telegram transport that reports to the bot the messages
\* the bot itself sent (Discord's always does).  Failing calls and redeliveries
\* come together in a run of one post fewer and no change.  In one run the
\* Telegram chat bound to no channel is a supergroup.
Scenarios ==
  { [ posts |-> l.posts, changes |-> l.changes, fail |-> d.fail, redeliver |-> 0,
      stop |-> d.stop, echo |-> FALSE, supergroup |-> FALSE ] : l \in Loads, d \in Disturbances }
  \cup
  { [ posts |-> MaxPosts - 1, changes |-> MaxChanges - 1, fail |-> 0,
      redeliver |-> MaxRedeliver, stop |-> FALSE, echo |-> FALSE, supergroup |-> FALSE ],
    [ posts |-> MaxPosts - 1, changes |-> MaxChanges - 1, fail |-> 0,
      redeliver |-> 0, stop |-> FALSE, echo |-> TRUE, supergroup |-> FALSE ],
    [ posts |-> MaxPosts - 1, changes |-> 0, fail |-> MaxFail,
      redeliver |-> MaxRedeliver, stop |-> FALSE, echo |-> FALSE, supergroup |-> FALSE ],
    [ posts |-> MaxPosts, changes |-> MaxChanges - 1, fail |-> 0,
      redeliver |-> 0, stop |-> FALSE, echo |-> FALSE, supergroup |-> TRUE ] }

(* --------------------------- small helpers ----------------------------- *)
Has(table, id) == \E r \in table : r.id = id
Row(table, id) == CHOOSE r \in table : r.id = id

\* whether one more call may fail
Outcomes == IF failures < limits.fail THEN {TRUE, FALSE} ELSE {TRUE}
Charge(ok) == failures' = IF ok THEN failures ELSE failures + 1

Active == { t \in tasks : t.pc # "done" }

\* an error that a listener's callback lets escape is an unhandled rejection:
\* it ends the process, and the listeners with it
Crashed == \E t \in tasks : t.result = "thrown"
CanSpawn == Cardinality(Active) < MaxTasks

\* Telegram numbers the messages of a supergroup chat by chat, and those of
\* the other chats in one sequence; the chat bound to no channel may be a
\* supergroup
Supergroups == IF limits.supergroup THEN {"109"} ELSE {}

\* a platform assigns message ids from its own sequence; Telegram's are small
\* integers, Discord's are snowflakes, so the two never coincide
NextNativeId(p, chat) ==
  LET own == p = "telegram" /\ chat \in Supergroups
      n == Cardinality({ m \in native :
                           /\ m.platform = p
                           /\ IF own THEN m.chat = chat ELSE m.chat \notin Supergroups })
  IN  IF p = "telegram" THEN n + 1 ELSE n + 101

BotOf(p) == IF p = "telegram" THEN telegramBot ELSE discordBot

\* a task record; the locals a handler does not use keep these values
Blank ==
  [ kind |-> "", ev |-> <<>>, n |-> 1, pc |-> "done", result |-> "", user |-> NULL,
    channel |-> NULL, dest |-> NULL, chat |-> NULL, target |-> NoId,
    text |-> <<>>, sent |-> NoId ]

Finished(kind, ev, result) ==
  [Blank EXCEPT !.kind = kind, !.ev = ev, !.result = result]

\* an invocation is known by its event and by which delivery of it it handles
Spawn(t) ==
  LET n == 1 + Cardinality({ x \in tasks : x.kind = t.kind /\ x.ev = t.ev })
  IN  tasks' = tasks \cup {[t EXCEPT !.n = n]}
Become(t, next) == tasks' = (tasks \ {t}) \cup {next}
Finish(t, result) ==
  Become(t, [Finished(t.kind, t.ev, result) EXCEPT !.n = t.n])

(* --------------------- the change feed (storage side) ------------------ *)
\* the row of realtime_messages for a message: the message joined with its
\* author and its channel
Payload(m, usersT) ==
  LET u == Row(usersT, m.user_id)
      c == ChannelById(m.channel_id)
  IN  [ id |-> m.id, content |-> m.content, username |-> u.username,
        platform |-> u.platform, type |-> c.type,
        discord_chat_id |-> c.discord_chat_id,
        telegram_chat_id |-> c.telegram_chat_id,
        deleted_at |-> m.deleted_at ]

NoPayload == [ id |-> NoId ]

FeedInsert(m, usersT) == feed' = Append(feed, [op |-> "INSERT", new |-> Payload(m, usersT), old |-> NoPayload])
FeedUpdate(old, new, usersT) ==
  feed' = Append(feed, [op |-> "UPDATE", new |-> Payload(new, usersT), old |-> Payload(old, usersT)])

(* ------------------------------ lifecycle ------------------------------ *)
Init ==
  /\ isReady = FALSE
  /\ telegramBot = "null"
  /\ discordBot = "null"
  /\ users = {}
  /\ messages = {}
  /\ message_mappings = {}
  /\ native = {}
  /\ inbox = [p \in Platforms |-> <<>>]
  /\ feed = <<>>
  /\ tasks = {}
  /\ calls = {}
  /\ clock = 0
  /\ changes = 0
  /\ failures = 0
  /\ redelivered = 0
  /\ limits \in Scenarios

\* main(): initialize() starts the Telegram bot, then logs the Discord bot in;
\* a login that throws leaves isReady false with the Telegram listener running
Initialize ==
  /\ telegramBot = "null"
  /\ \E ok \in Outcomes :
       /\ Charge(ok)
       /\ telegramBot' = "running"
       /\ discordBot' = IF ok THEN "running" ELSE "created"
       /\ isReady' = ok
  /\ UNCHANGED << storeVars, native, inbox, feed, tasks, calls, clock, changes, redelivered, limits >>

Shutdown ==
  /\ limits.stop
  /\ telegramBot = "running"
  /\ telegramBot' = "stopped"
  /\ discordBot' = "stopped"
  /\ isReady' = FALSE
  /\ UNCHANGED << storeVars, native, inbox, feed, tasks, calls, clock, changes, failures, redelivered, limits >>

(* ------------------------- the platforms' users ------------------------ *)
NativeEvent(kind, m, content, username, userId) ==
  [ kind |-> kind, platform |-> m.platform, chatId |-> m.chat, messageId |-> m.id,
    content |-> content, username |-> username, userId |-> userId,
    pfp |-> IF m.platform = "telegram" \/ m.bot THEN NULL ELSE Avatar,
    bot |-> m.bot ]

Emit(e) == inbox' = [inbox EXCEPT ![e.platform] = Append(@, e)]

UserPosts == { m \in native : ~m.bot }

\* names and contents are interchangeable: the first post of a run is "ann"'s,
\* and a post says "a" (edits say either)
PostUsernames == IF UserPosts = {} THEN {<<"ann">>} ELSE Usernames
PostContents == {<<"a">>}

\* a user posts a message in a chat the bot sits in
Post(p, chat, uid, uname, content) ==
  /\ BotOf(p) = "running"
  /\ Cardinality(UserPosts) < limits.posts
  /\ LET m == [ platform |-> p, chat |-> chat, id |-> NextNativeId(p, chat), bot |-> FALSE,
                author |-> uid, text |-> content, deleted |-> FALSE ]
     IN  /\ native' = native \cup {m}
         /\ Emit(NativeEvent("create", m, content, uname, uid))
  /\ UNCHANGED << lifeVars, storeVars, feed, tasks, calls, clock, changes, failures, redelivered >>

\* a user edits a message of their own
UserEdit(m, content) ==
  /\ BotOf(m.platform) = "running"
  /\ ~m.bot /\ ~m.deleted
  /\ changes < limits.changes
  /\ changes' = changes + 1
  /\ native' = (native \ {m}) \cup {[m EXCEPT !.text = content]}
  /\ Emit(NativeEvent("edit", m, content, <<>>, m.author))
  /\ UNCHANGED << lifeVars, storeVars, feed, tasks, calls, clock, failures, redelivered >>

\* a user deletes a message of their own; only Discord reports deletions
UserDelete(m) ==
  /\ BotOf(m.platform) = "running"
  /\ m.platform = "discord"
  /\ ~m.bot /\ ~m.deleted
  /\ changes < limits.changes
  /\ changes' = changes + 1
  /\ native' = (native \ {m}) \cup {[m EXCEPT !.deleted = TRUE]}
  /\ Emit(NativeEvent("delete", m, <<>>, <<>>, m.author))
  /\ UNCHANGED << lifeVars, storeVars, feed, tasks, calls, clock, failures, redelivered >>

(* ------------------------------ the store ------------------------------ *)
\* a lookup that falls back on a channel when the chat is bound to none
findMatchingChannel_Fallback(platform, chatId) ==
  LET hits == { c \in Channels : ChatColumn(c, platform) = chatId }
  IN  IF Cardinality(hits) = 1 THEN (CHOOSE c \in hits : TRUE).id ELSE "c1"

\* .from('channels').select('*').eq(<platform column>, chatId).single()
findMatchingChannel(platform, chatId) ==
  LET hits == { c \in Channels : ChatColumn(c, platform) = chatId }
  IN  IF Cardinality(hits) = 1 THEN (CHOOSE c \in hits : TRUE).id ELSE NULL

\* an upsert that overlooks a changed avatar
needsUpdate_NameOnly(existingUser, incomingMessage) ==
  existingUser.username # incomingMessage.username

\* an upsert that rewrites the user whatever is stored
needsUpdate_Always(existingUser, incomingMessage) == TRUE

\* existingUser.username !== incoming.username || existingUser.pfp !== incoming.pfp
needsUpdate(existingUser, incomingMessage) ==
  \/ existingUser.username # incomingMessage.username
  \/ existingUser.pfp # incomingMessage.pfp

\* .from('message_mappings').select('*').or(`discord_id.eq.X,telegram_id.eq.X`)
MappingHits(id) == { r \in message_mappings : r.discord_id = id \/ r.telegram_id = id }

(* ------------------------- the native listeners ------------------------ *)
OrElse(text, default) == IF text = <<>> THEN default ELSE text

\* the IncomingMessage the 'message' / 'messageCreate' listener builds
Incoming(e) ==
  [ platform |-> e.platform, chatId |-> e.chatId, messageId |-> e.messageId,
    content |-> OrElse(e.content, IF e.platform = "telegram"
                                    THEN <<"[Non-text message]">>
                                    ELSE <<"[Empty message]">>),
    username |-> OrElse(e.username, <<"Unknown">>),
    userId |-> e.userId,
    pfp |-> IF e.platform = "telegram" THEN NULL ELSE e.pfp ]

\* the guards at the head of the listeners: Discord's drop what a bot authored
ListenerAccepts(e) ==
  CASE e.platform = "discord" /\ e.kind = "create" -> ~e.bot
    [] e.platform = "discord" /\ e.kind = "edit"   -> ~e.bot /\ e.content # <<>>
    [] e.platform = "discord" /\ e.kind = "delete" -> ~e.bot
    [] OTHER -> TRUE

\* an ingestion that sends the message on to the other platform itself
StartIncoming_Relays(im) ==
  LET channel == findMatchingChannel(im.platform, im.chatId)
      dest == IF im.platform = "telegram" THEN "discord" ELSE "telegram"
  IN  /\ UNCHANGED failures
      /\ IF channel = NULL
         THEN Spawn(Finished("incoming", im, "no_channel"))
         ELSE Spawn([Blank EXCEPT !.kind = "incoming", !.ev = im, !.channel = channel,
                       !.pc = "send", !.dest = dest,
                       !.chat = ChatColumn(ChannelById(channel), dest),
                       !.text = im.content])

\* processIncomingMessage up to its second await: the channel lookup and
\* upsertUser's select
StartIncoming(im) ==
  LET channel == findMatchingChannel(im.platform, im.chatId)
      t == [Blank EXCEPT !.kind = "incoming", !.ev = im, !.channel = channel]
  IN  IF channel = NULL
      THEN Spawn(Finished("incoming", im, "no_channel")) /\ UNCHANGED failures
      ELSE \E ok \in Outcomes :
             /\ Charge(ok)
             /\ IF ~ok THEN Spawn(Finished("incoming", im, "user_failed"))
                ELSE IF ~Has(users, im.userId) THEN Spawn([t EXCEPT !.pc = "insertUser"])
                ELSE IF needsUpdate(Row(users, im.userId), im)
                     THEN Spawn([t EXCEPT !.pc = "updateUser"])
                     ELSE Spawn([t EXCEPT !.pc = "insertMessage", !.user = im.userId])

\* a chat check that lets every chat pass
isCorrectChat_Any(channel, e) == TRUE

\* (platform === 'discord' && channel.discord_chat_id === chatId) ||
\* (platform === 'telegram' && channel.telegram_chat_id === chatId)
isCorrectChat(channel, e) ==
  \/ e.platform = "discord" /\ channel.discord_chat_id = e.chatId
  \/ e.platform = "telegram" /\ channel.telegram_chat_id = e.chatId

\* handlePlatformMessageEdit / handlePlatformMessageDelete up to the update:
\* the select of the message with its channel, and the chat check
StartPlatformChange(kind, e) ==
  \E ok \in Outcomes :
    /\ Charge(ok)
    /\ IF ~ok \/ ~Has(messages, e.messageId)
       THEN Spawn(Finished(kind, e, "not_found"))
       ELSE LET channel == ChannelById(Row(messages, e.messageId).channel_id)
            IN  IF ~isCorrectChat(channel, e)
                THEN Spawn(Finished(kind, e, "wrong_chat"))
                ELSE Spawn([Blank EXCEPT !.kind = kind, !.ev = e, !.pc = "update"])

\* the PlatformMessageEdit the 'edited_message' / 'messageUpdate' listener builds
EditData(e) ==
  [e EXCEPT !.content = IF e.platform = "telegram"
                        THEN OrElse(e.content, <<"[Non-text message]">>)
                        ELSE e.content]

\* a platform delivers the next native event to its listener; with `again`
\* the transport does not acknowledge it and will deliver it once more
DeliverNative(p, again) ==
  /\ ~Crashed
  /\ BotOf(p) = "running"
  /\ inbox[p] # <<>>
  /\ IF again
     THEN redelivered < limits.redeliver /\ redelivered' = redelivered + 1 /\ UNCHANGED inbox
     ELSE inbox' = [inbox EXCEPT ![p] = Tail(@)] /\ UNCHANGED redelivered
  /\ LET e == Head(inbox[p])
     IN  IF ~ListenerAccepts(e)
         THEN UNCHANGED << tasks, failures >>
         ELSE /\ CanSpawn
              /\ CASE e.kind = "create" -> StartIncoming(Incoming(e))
                   [] e.kind = "edit"   -> StartPlatformChange("platformEdit", EditData(e))
                   [] OTHER             -> StartPlatformChange("platformDelete", e)
  /\ UNCHANGED << lifeVars, storeVars, native, feed, calls, clock, changes >>

(* --------------------------- ingestion steps --------------------------- *)
\* an ingestion that goes on to the message although the user was not written
UserFailed_GoesOn(t) ==
  Become(t, [t EXCEPT !.pc = "insertMessage", !.user = t.ev.userId])

\* upsertUser returns null on a failed insert or update, and
\* processIncomingMessage returns on a null user
UserFailed(t) == Finish(t, "user_failed")

\* upsertUser: the insert of a user the select did not find
InsertUser(t) ==
  /\ t.pc = "insertUser"
  /\ LET im == t.ev
     IN  \E ok \in Outcomes :
           /\ Charge(ok)
           /\ IF ok /\ ~Has(users, im.userId)
              THEN /\ users' = users \cup {[ id |-> im.userId, username |-> im.username,
                                            pfp |-> im.pfp, platform |-> im.platform ]}
                   /\ Become(t, [t EXCEPT !.pc = "insertMessage", !.user = im.userId])
              ELSE UserFailed(t) /\ UNCHANGED users
  /\ UNCHANGED << lifeVars, messages, message_mappings, native, inbox, feed, calls,
                  clock, changes, redelivered >>

\* upsertUser: the update of a user whose username or avatar differs
UpdateUser(t) ==
  /\ t.pc = "updateUser"
  /\ LET im == t.ev
         old == Row(users, im.userId)
     IN  \E ok \in Outcomes :
           /\ Charge(ok)
           /\ IF ok
              THEN /\ users' = (users \ {old}) \cup
                                 {[old EXCEPT !.username = im.username, !.pfp = im.pfp]}
                   /\ Become(t, [t EXCEPT !.pc = "insertMessage", !.user = im.userId])
              ELSE UserFailed(t) /\ UNCHANGED users
  /\ UNCHANGED << lifeVars, messages, message_mappings, native, inbox, feed, calls,
                  clock, changes, redelivered >>

\* an insert whose error is thrown on, out of the listener's callback
InsertFailed_Throws(t) == Finish(t, "thrown")

\* if (error) { console.error('Error inserting message') return null } and the
\* return of processIncomingMessage on a null message
InsertFailed(t) == Finish(t, "insert_failed")

\* insertMessage: the id is the primary key, a second insert of it is an error
InsertMessage(t) ==
  /\ t.pc = "insertMessage"
  /\ LET im == t.ev
         m == [ id |-> im.messageId, content |-> im.content, user_id |-> t.user,
                channel_id |-> t.channel, modified_at |-> 0, deleted_at |-> 0 ]
     IN  \E ok \in Outcomes :
           /\ Charge(ok)
           /\ IF ok /\ ~Has(messages, im.messageId)
              THEN /\ messages' = messages \cup {m}
                   /\ FeedInsert(m, users)
                   /\ Finish(t, "inserted")
              ELSE InsertFailed(t) /\ UNCHANGED << messages, feed >>
  /\ UNCHANGED << lifeVars, users, message_mappings, native, inbox, calls, clock,
                  changes, redelivered >>

\* an edit that writes the row back as a live one
EditUpdate_Undelete(old, editData, now) ==
  [old EXCEPT !.content = editData.content, !.modified_at = now, !.deleted_at = 0]

\* .update({ content: editData.newContent, modified_at: new Date() })
EditUpdate(old, editData, now) ==
  [old EXCEPT !.content = editData.content, !.modified_at = now]

\* .update({ deleted_at: new Date() })
DeleteUpdate(old, now) == [old EXCEPT !.deleted_at = now]

\* the update of handlePlatformMessageEdit (content, modified_at) or of
\* handlePlatformMessageDelete (deleted_at)
UpdateMessage(t) ==
  /\ t.pc = "update"
  /\ LET e == t.ev
         old == Row(messages, e.messageId)
         new == IF t.kind = "platformEdit"
                THEN EditUpdate(old, e, clock + 1)
                ELSE DeleteUpdate(old, clock + 1)
     IN  \E ok \in Outcomes :
           /\ Charge(ok)
           /\ IF ok
              THEN /\ messages' = (messages \ {old}) \cup {new}
                   /\ clock' = clock + 1
                   /\ FeedUpdate(old, new, users)
                   /\ Finish(t, "updated")
              ELSE Finish(t, "update_failed") /\ UNCHANGED << messages, clock, feed >>
  /\ UNCHANGED << lifeVars, users, message_mappings, native, inbox, calls, changes,
                  redelivered >>

(* ------------------------------ formatter ------------------------------ *)
RECURSIVE ReplaceAll(_, _, _)
\* text.replace(/c/g, rep)
ReplaceAll(text, c, rep) ==
  IF text = <<>> THEN <<>>
  ELSE (IF Head(text) = c THEN rep ELSE <<Head(text)>>) \o ReplaceAll(Tail(text), c, rep)

escapeHtmlForTelegram(text) ==
  ReplaceAll(ReplaceAll(ReplaceAll(text, "&", <<"&", "a", "m", "p", ";">>),
                        "<", <<"&", "l", "t", ";">>),
             ">", <<"&", "g", "t", ";">>)

TelegramBadge(platform) == IF platform = "discord" THEN "blue_diamond" ELSE "phone"
DiscordBadge(platform) == IF platform = "telegram" THEN "phone" ELSE "blue_diamond"
TypeEmoji(type) == IF type = "two-ways" THEN "left_right_arrow" ELSE "right_arrow"

formatEditedMessageForTelegram(username, content, originalPlatform, channelType) ==
  << TelegramBadge(originalPlatform), " ", TypeEmoji(channelType), " ", "<b>" >>
    \o escapeHtmlForTelegram(username) \o << "</b>", "\n" >>
    \o escapeHtmlForTelegram(content)

formatEditedMessageForDiscord(username, content, originalPlatform, channelType) ==
  << DiscordBadge(originalPlatform), " ", TypeEmoji(channelType), " ", "**" >>
    \o username \o << "**", "\n" >> \o content

formatMessageForTelegram(payload) ==
  << TelegramBadge(payload.platform), " ", TypeEmoji(payload.type), " ", "<b>" >>
    \o escapeHtmlForTelegram(payload.username) \o << "</b>", "\n" >>
    \o escapeHtmlForTelegram(payload.content)

formatMessageForDiscord(payload) ==
  << DiscordBadge(payload.platform), " ", TypeEmoji(payload.type), " ", "**" >>
    \o payload.username \o << "**", "\n" >> \o payload.content

(* ---------------------- the change-feed handlers ----------------------- *)
\* a relay that answers a two-way message on the platform it came from
RelayDestination_SameSide(payload) ==
  IF payload.type = "two-ways"
  THEN (IF payload.platform = "discord" THEN "discord"
        ELSE IF payload.platform = "telegram" THEN "telegram" ELSE NULL)
  ELSE IF payload.type = "one-way"
       THEN (IF payload.platform = "telegram" THEN "discord" ELSE NULL)
       ELSE NULL

\* a relay that treats a one-way channel as a two-way one
RelayDestination_BothWays(payload) ==
  IF payload.type \in {"two-ways", "one-way"}
  THEN (IF payload.platform = "discord" THEN "telegram"
        ELSE IF payload.platform = "telegram" THEN "discord" ELSE NULL)
  ELSE NULL

\* the platform handleMessage relays a created message to, NULL for none
RelayDestination(payload) ==
  IF payload.type = "two-ways"
  THEN (IF payload.platform = "discord" THEN "telegram"
        ELSE IF payload.platform = "telegram" THEN "discord" ELSE NULL)
  ELSE IF payload.type = "one-way"
       THEN (IF payload.platform = "telegram" THEN "discord" ELSE NULL)
       ELSE NULL

\* a gate that is open whatever the state of the messenger
NotReady_Never == FALSE

\* if (!this.isReady) { console.error(...); return }
NotReady == ~isReady

PayloadChat(payload, p) ==
  IF p = "discord" THEN payload.discord_chat_id ELSE payload.telegram_chat_id

\* handleMessage up to the platform call of sendToTelegram / sendToDiscord
StartHandleMessage(payload) ==
  LET dest == RelayDestination(payload)
  IN  IF NotReady THEN Spawn(Finished("create", payload, "not_ready"))
      ELSE IF dest = NULL THEN Spawn(Finished("create", payload, "ignored"))
      ELSE IF BotOf(dest) = "null" \/ PayloadChat(payload, dest) = NULL
           THEN Spawn(Finished("create", payload, "cannot_send"))
           ELSE Spawn([Blank EXCEPT !.kind = "create", !.ev = payload, !.pc = "send",
                         !.dest = dest, !.chat = PayloadChat(payload, dest),
                         !.text = IF dest = "telegram"
                                  THEN formatMessageForTelegram(payload)
                                  ELSE formatMessageForDiscord(payload)])

\* an edit that goes back to the platform of the author
EditDestination_SameSide(platform, channel) ==
  IF platform = "telegram" /\ channel.telegram_chat_id # NULL THEN "telegram"
  ELSE IF platform = "discord" /\ channel.discord_chat_id # NULL THEN "discord"
  ELSE NULL

\* the platform an edit of a message of `platform` goes to, in `channel`
EditDestination(platform, channel) ==
  IF platform = "telegram" /\ channel.discord_chat_id # NULL THEN "discord"
  ELSE IF platform = "discord" /\ channel.telegram_chat_id # NULL THEN "telegram"
  ELSE NULL

\* handleMessageUpdate up to the mapping lookup: the gate and the select of
\* the message with its channel and its author
StartHandleUpdate(newPayload) ==
  IF NotReady THEN Spawn(Finished("update", newPayload, "not_ready")) /\ UNCHANGED failures
  ELSE \E ok \in Outcomes :
         /\ Charge(ok)
         /\ IF ~ok \/ ~Has(messages, newPayload.id)
            THEN Spawn(Finished("update", newPayload, "no_message"))
            ELSE LET existingMessage == Row(messages, newPayload.id)
                     channel == ChannelById(existingMessage.channel_id)
                     user == Row(users, existingMessage.user_id)
                     dest == EditDestination(user.platform, channel)
                 IN  Spawn([Blank EXCEPT
                       !.kind = "update", !.ev = newPayload, !.pc = "findMapping",
                       !.dest = dest,
                       !.chat = IF dest = NULL THEN NULL ELSE ChatColumn(channel, dest),
                       !.text = IF dest = "discord"
                                THEN formatEditedMessageForDiscord(user.username,
                                       newPayload.content, user.platform, channel.type)
                                ELSE formatEditedMessageForTelegram(user.username,
                                       newPayload.content, user.platform, channel.type)])

\* a deletion that goes back to the platform the message came from
DeleteDestination_SameSide(payload) ==
  IF payload.platform = "telegram" /\ payload.telegram_chat_id # NULL THEN "telegram"
  ELSE IF payload.platform = "discord" /\ payload.discord_chat_id # NULL THEN "discord"
  ELSE NULL

\* the platform handleMessageDeletion deletes on
DeleteDestination(payload) ==
  IF payload.platform = "telegram" /\ payload.discord_chat_id # NULL THEN "discord"
  ELSE IF payload.platform = "discord" /\ payload.telegram_chat_id # NULL THEN "telegram"
  ELSE NULL

MappingId(row, p) == IF p = "discord" THEN row.discord_id ELSE row.telegram_id

\* a handler that goes on whatever the lookup gave
MappingFound_Unchecked(ok, hits) == TRUE

\* if (mappingError || !mapping) return: .single() gives a row only when the
\* select succeeds and matches exactly one
MappingFound(ok, hits) == ok /\ Cardinality(hits) = 1

\* mapping.discord_id / mapping.telegram_id of the row found
TargetOf(hits, dest) ==
  IF hits = {} \/ dest = NULL THEN NoId ELSE MappingId(CHOOSE r \in hits : TRUE, dest)

\* handleMessageDeletion up to the platform call: the gate and the mapping lookup
StartHandleDeletion(deletedPayload) ==
  IF NotReady THEN Spawn(Finished("deletion", deletedPayload, "not_ready")) /\ UNCHANGED failures
  ELSE \E ok \in Outcomes :
         /\ Charge(ok)
         /\ LET hits == MappingHits(deletedPayload.id)
                dest == DeleteDestination(deletedPayload)
            IN  IF ~MappingFound(ok, hits)
                THEN Spawn(Finished("deletion", deletedPayload, "no_mapping"))
                ELSE IF dest = NULL
                THEN Spawn(Finished("deletion", deletedPayload, "no_target"))
                ELSE Spawn([Blank EXCEPT
                       !.kind = "deletion", !.ev = deletedPayload, !.pc = "delete",
                       !.dest = dest, !.chat = PayloadChat(deletedPayload, dest),
                       !.target = TargetOf(hits, dest)])

\* a callback that takes every update of a deleted message for its deletion
Route_ByNewOnly(e) ==
  IF e.op = "INSERT" /\ e.new.id # NoId THEN "create"
  ELSE IF e.op = "UPDATE" /\ e.new.id # NoId /\ e.old.id # NoId
       THEN (IF e.new.deleted_at # 0 THEN "deletion" ELSE "update")
       ELSE "none"

\* which handler the postgres_changes callback calls for an event
Route(e) ==
  IF e.op = "INSERT" /\ e.new.id # NoId THEN "create"
  ELSE IF e.op = "UPDATE" /\ e.new.id # NoId /\ e.old.id # NoId
       THEN (IF e.new.deleted_at # 0 /\ e.old.deleted_at = 0 THEN "deletion" ELSE "update")
       ELSE "none"

\* the change feed delivers its next event to the postgres_changes callback;
\* with `again` it will deliver the same event once more
DeliverFeed(again) ==
  /\ ~Crashed
  /\ telegramBot # "null"
  /\ feed # <<>>
  /\ CanSpawn
  /\ IF again
     THEN redelivered < limits.redeliver /\ redelivered' = redelivered + 1 /\ UNCHANGED feed
     ELSE feed' = Tail(feed) /\ UNCHANGED redelivered
  /\ LET e == Head(feed)
     IN  CASE Route(e) = "create"   -> StartHandleMessage(e.new) /\ UNCHANGED failures
           [] Route(e) = "deletion" -> StartHandleDeletion(e.new)
           [] Route(e) = "update"   -> StartHandleUpdate(e.new)
           [] OTHER                 -> UNCHANGED << tasks, failures >>
  /\ UNCHANGED << lifeVars, storeVars, native, inbox, calls, clock, changes >>

(* ------------------------- outbound operations ------------------------- *)
\* An outbound operation is one sendMessage / editMessage / deleteMessage of
\* the platform client: for Telegram one api call, for Discord the channel
\* fetch (and the message fetch) with the send, edit or delete that follows.
Call(t, op, messageId, ok) ==
  [ kind |-> t.kind, ev |-> t.ev, n |-> t.n, op |-> op, platform |-> t.dest, chatId |-> t.chat,
    messageId |-> messageId, text |-> t.text, ok |-> ok ]

\* the platform reports a message the bot sent to the bot's own listener
Echo(e) ==
  IF BotOf(e.platform) = "running" /\ (e.platform = "discord" \/ limits.echo)
  THEN Emit(e) ELSE UNCHANGED inbox

\* the copy a message of the bot that an edit or a delete can act on
Target(t) ==
  { m \in native : /\ m.platform = t.dest /\ m.chat = t.chat
                   /\ m.id = t.target /\ m.bot /\ ~m.deleted }

\* a send whose failure is passed over, the mapping being written all the same
SendFailed_MapsAnyway(t) == Become(t, [t EXCEPT !.pc = "map"])

\* catch (error) { console.error('Failed to send to ...') } of sendToTelegram /
\* sendToDiscord: the throw skips createMessageMapping
SendFailed(t) == Finish(t, "send_failed")

\* sendToTelegram / sendToDiscord: the send
Send(t) ==
  /\ t.pc = "send"
  /\ \E ok \in Outcomes :
       /\ Charge(ok)
       /\ IF ok
          THEN LET m == [ platform |-> t.dest, chat |-> t.chat,
                          id |-> NextNativeId(t.dest, t.chat), bot |-> TRUE,
                          author |-> BotUser, text |-> t.text, deleted |-> FALSE ]
               IN  /\ native' = native \cup {m}
                   /\ Echo(NativeEvent("create", m, m.text, BotUsername, BotUser))
                   /\ calls' = calls \cup {Call(t, "send", m.id, TRUE)}
                   /\ Become(t, [t EXCEPT !.pc = "map", !.sent = m.id])
          ELSE /\ calls' = calls \cup {Call(t, "send", NoId, FALSE)}
               /\ SendFailed(t)
               /\ UNCHANGED << native, inbox >>
  /\ UNCHANGED << lifeVars, storeVars, feed, clock, changes, redelivered >>

\* a mapping with the two ids in each other's column
mappingData_Swapped(originalMessageId, forwardedMessageId, originalPlatform) ==
  IF originalPlatform = "discord"
  THEN [ discord_id |-> forwardedMessageId, telegram_id |-> originalMessageId ]
  ELSE [ discord_id |-> originalMessageId, telegram_id |-> forwardedMessageId ]

\* const mappingData = originalPlatform === 'discord' ? {...} : {...}
mappingData(originalMessageId, forwardedMessageId, originalPlatform) ==
  IF originalPlatform = "discord"
  THEN [ discord_id |-> originalMessageId, telegram_id |-> forwardedMessageId ]
  ELSE [ discord_id |-> forwardedMessageId, telegram_id |-> originalMessageId ]

\* the table's upsert: the row replaces the row that holds the same id of the
\* original message, if there is one
Upsert(table, row, originalPlatform) ==
  { r \in table : MappingId(r, originalPlatform) # MappingId(row, originalPlatform) }
    \cup {row}

\* createMessageMapping, awaited after the send
Map(t) ==
  /\ t.pc = "map"
  /\ LET payload == t.ev
         row == mappingData(payload.id, t.sent, payload.platform)
     IN  \E ok \in Outcomes :
           /\ Charge(ok)
           /\ IF ok
              THEN /\ message_mappings' = Upsert(message_mappings, row, payload.platform)
                   /\ Finish(t, "relayed")
              ELSE Finish(t, "unmapped") /\ UNCHANGED message_mappings
  /\ UNCHANGED << lifeVars, users, messages, native, inbox, feed, calls, clock,
                  changes, redelivered >>

\* handleMessageUpdate: the mapping lookup
FindMapping(t) ==
  /\ t.pc = "findMapping"
  /\ LET hits == MappingHits(t.ev.id)
     IN  \E ok \in Outcomes :
           /\ Charge(ok)
           /\ IF ~MappingFound(ok, hits) THEN Finish(t, "no_mapping")
              ELSE IF t.dest = NULL THEN Finish(t, "no_target")
              ELSE Become(t, [t EXCEPT !.pc = "edit", !.target = TargetOf(hits, t.dest)])
  /\ UNCHANGED << lifeVars, storeVars, native, inbox, feed, calls, clock, changes,
                  redelivered >>

\* editTelegramMessage / editDiscordMessage
Edit(t) ==
  /\ t.pc = "edit"
  /\ \E ok \in Outcomes :
       /\ Charge(ok)
       /\ IF ok /\ Target(t) # {}
          THEN LET m == CHOOSE m \in Target(t) : TRUE
                   edited == [m EXCEPT !.text = t.text]
               IN  /\ native' = (native \ {m}) \cup {edited}
                   /\ UNCHANGED inbox
                   /\ calls' = calls \cup {Call(t, "edit", t.target, TRUE)}
                   /\ Finish(t, "edited")
          ELSE /\ calls' = calls \cup {Call(t, "edit", t.target, FALSE)}
               /\ Finish(t, "edit_failed")
               /\ UNCHANGED << native, inbox >>
  /\ UNCHANGED << lifeVars, storeVars, feed, clock, changes, redelivered >>

\* deleteTelegramMessage / deleteDiscordMessage; Telegram reports no deletion
Delete(t) ==
  /\ t.pc = "delete"
  /\ \E ok \in Outcomes :
       /\ Charge(ok)
       /\ IF ok /\ Target(t) # {}
          THEN LET m == CHOOSE m \in Target(t) : TRUE
                   gone == [m EXCEPT !.deleted = TRUE]
               IN  /\ native' = (native \ {m}) \cup {gone}
                   /\ UNCHANGED inbox
                   /\ calls' = calls \cup {Call(t, "delete", t.target, TRUE)}
                   /\ Finish(t, "deleted")
          ELSE /\ calls' = calls \cup {Call(t, "delete", t.target, FALSE)}
               /\ Finish(t, "delete_failed")
               /\ UNCHANGED << native, inbox >>
  /\ UNCHANGED << lifeVars, storeVars, feed, clock, changes, redelivered >>

(* --------------------------- the specification -------------------------- *)
Next ==
  \/ Initialize
  \/ Shutdown
  \/ \E p \in Platforms : \E chat \in ChatsOf(p) : \E uid \in UserIdsOf(p) :
       \E uname \in PostUsernames : \E content \in PostContents :
         Post(p, chat, uid, uname, content)
  \/ \E m \in native : \E content \in Contents : UserEdit(m, content)
  \/ \E m \in native : UserDelete(m)
  \/ \E p \in Platforms : \E again \in BOOLEAN : DeliverNative(p, again)
  \/ \E again \in BOOLEAN : DeliverFeed(again)
  \/ \E t \in Active : InsertUser(t)
  \/ \E t \in Active : UpdateUser(t)
  \/ \E t \in Active : InsertMessage(t)
  \/ \E t \in Active : UpdateMessage(t)
  \/ \E t \in Active : Send(t)
  \/ \E t \in Active : Map(t)
  \/ \E t \in Active : FindMapping(t)
  \/ \E t \in Active : Edit(t)
  \/ \E t \in Active : Delete(t)

Spec == Init /\ [][Next]_vars

(* ------------------- the formatter on arbitrary texts ------------------ *)
\* the characters of a username or a content: a letter, the characters HTML
\* reads as markup and characters Discord's markdown reads as markup
Alphabet == {"a", "&", "<", ">", "*", "_"}

Texts == UNION { [1..n -> Alphabet] : n \in 1..MaxLen }

\* A message of any username and content, posted by u1 in the two-way channel
\* and edited once, is stored, and its two change events are pending: the
\* relay formats it for the send and for the edit.
FormatInit ==
  \E p \in Platforms : \E username \in Texts : \E content \in Texts :
    LET id == IF p = "telegram" THEN 1 ELSE 101
        c == ChannelById("c1")
        u == [ id |-> "u1", username |-> username,
               pfp |-> IF p = "telegram" THEN NULL ELSE Avatar, platform |-> p ]
        m0 == [ id |-> id, content |-> content, user_id |-> "u1", channel_id |-> "c1",
                modified_at |-> 0, deleted_at |-> 0 ]
        m == EditUpdate(m0, [content |-> content], 1)
    IN  /\ isReady = TRUE
        /\ telegramBot = "running"
        /\ discordBot = "running"
        /\ users = {u}
        /\ messages = {m}
        /\ message_mappings = {}
        /\ native = {[ platform |-> p, chat |-> ChatColumn(c, p), id |-> id, bot |-> FALSE,
                       author |-> "u1", text |-> content, deleted |-> FALSE ]}
        /\ inbox = [q \in Platforms |-> <<>>]
        /\ feed = << [op |-> "INSERT", new |-> Payload(m0, {u}), old |-> NoPayload],
                     [op |-> "UPDATE", new |-> Payload(m, {u}), old |-> Payload(m0, {u})] >>
        /\ tasks = {}
        /\ calls = {}
        /\ clock = 1
        /\ changes = 1
        /\ failures = 0
        /\ redelivered = 0
        /\ limits = [ posts |-> 1, changes |-> 1, fail |-> 0, redeliver |-> 0,
                      stop |-> FALSE, echo |-> FALSE, supergroup |-> FALSE ]

FormatNext ==
  \/ DeliverFeed(FALSE)
  \/ \E t \in Active : Send(t)
  \/ \E t \in Active : Map(t)
  \/ \E t \in Active : FindMapping(t)
  \/ \E t \in Active : Edit(t)

FormatSpec == FormatInit /\ [][FormatNext]_vars

(* ------------------------------ properties ----------------------------- *)
Other(p) == IF p = "telegram" THEN "discord" ELSE "telegram"

SameInvocation(x, y) == x.kind = y.kind /\ x.ev = y.ev /\ x.n = y.n

\* the outbound operations an invocation has issued
CallsOf(t) == { c \in calls : SameInvocation(c, t) }

\* in a step: the invocations it starts, those it starts or moves on, the
\* invocation states it leaves, and the outbound operations it issues
Started == { s \in tasks' : ~\E t \in tasks : SameInvocation(s, t) }
Moved == tasks' \ tasks
Left == tasks \ tasks'
Issued == calls' \ calls

\* the mapping rows stored for a message
StoredMappings(id) ==
  { r \in message_mappings : r.discord_id = id \/ r.telegram_id = id }

\* the badge a relayed text opens with, by the platform of the author
Badge(platform) == IF platform = "telegram" THEN "phone" ELSE "blue_diamond"

EndsWith(text, tail) ==
  /\ Len(text) >= Len(tail)
  /\ SubSeq(text, Len(text) - Len(tail) + 1, Len(text)) = tail

\* C1: loop prevention.  A copy that the relay itself sent to a platform (a
\* native message authored by the relay's bot, on Telegram or on Discord) is
\* never ingested as a canonical Message.
C1_LoopPrevention ==
  \A m \in native : m.bot => ~Has(messages, m.id)

\* C2: two-way relay.  For a create event of a two-way channel bound on both
\* platforms, an invocation of handleMessage that finds the messenger ready
\* issues exactly one send; it goes to the chat of the platform other than the
\* one the event names as the message's, and nothing goes to that platform.
TwoWayReady(t) ==
  /\ t.kind = "create"
  /\ t.ev.type = "two-ways"
  /\ t.ev.telegram_chat_id # NULL /\ t.ev.discord_chat_id # NULL
  /\ t.result # "not_ready"

C2_TwoWayRelay ==
  \A t \in tasks : TwoWayReady(t) =>
    LET dest == Other(t.ev.platform)
    IN  /\ \A c \in CallsOf(t) :
             c.op = "send" /\ c.platform = dest /\ c.chatId = PayloadChat(t.ev, dest)
        /\ Cardinality(CallsOf(t)) <= 1
        /\ t.pc \in {"map", "done"} => Cardinality(CallsOf(t)) = 1

\* both directions have relayed: a Telegram message to Discord and a Discord
\* message to Telegram
C2_Witness ==
  \E a, b \in tasks :
    /\ TwoWayReady(a) /\ a.pc = "done" /\ a.ev.platform = "telegram"
    /\ TwoWayReady(b) /\ b.pc = "done" /\ b.ev.platform = "discord"
    /\ \E c \in CallsOf(a) : c.ok /\ c.platform = "discord"
    /\ \E c \in CallsOf(b) : c.ok /\ c.platform = "telegram"

\* C3: idempotent relay.  However often the create event of a canonical
\* message is delivered, at most one copy of the message is sent to the
\* destination platform.
C3_RelayIdempotent ==
  \A m \in messages :
    Cardinality({ c \in calls : c.kind = "create" /\ c.op = "send" /\ c.ok
                                 /\ c.ev.id = m.id }) <= 1

\* C4: one-way relay.  No send ever goes to the Telegram chat of the one-way
\* channel; a message of that channel that the event names as Discord's is
\* stored as a canonical message and handleMessage issues nothing for it; one
\* that the event names as Telegram's gets exactly one send, to the channel's
\* Discord chat, from an invocation that finds the messenger ready.
OneWay(t) == t.kind = "create" /\ t.ev.type = "one-way"

C4_OneWayRelay ==
  /\ \A c \in calls : \A ch \in Channels :
       (c.op = "send" /\ ch.type = "one-way") =>
         ~(c.platform = "telegram" /\ c.chatId = ch.telegram_chat_id)
  /\ \A c \in calls : (c.kind = "create" /\ c.ev.type = "one-way") => c.platform # "telegram"
  /\ \A t \in tasks : (OneWay(t) /\ t.ev.platform = "discord") =>
       /\ Has(messages, t.ev.id)
       /\ t.pc = "done" /\ t.result \in {"ignored", "not_ready"}
       /\ CallsOf(t) = {}
  /\ \A t \in tasks : (OneWay(t) /\ t.ev.platform = "telegram" /\ t.result # "not_ready") =>
       /\ \A c \in CallsOf(t) :
            c.op = "send" /\ c.platform = "discord" /\ c.chatId = t.ev.discord_chat_id
       /\ Cardinality(CallsOf(t)) <= 1
       /\ t.pc \in {"map", "done"} => Cardinality(CallsOf(t)) = 1

\* on the one-way channel a Discord message was stored and ignored and a
\* Telegram message was relayed to Discord
C4_Witness ==
  \E a, b \in tasks :
    /\ OneWay(a) /\ a.ev.platform = "discord" /\ a.result = "ignored"
    /\ Has(messages, a.ev.id)
    /\ OneWay(b) /\ b.ev.platform = "telegram" /\ b.pc = "done"
    /\ \E c \in CallsOf(b) : c.ok /\ c.platform = "discord"

\* C5: untracked chat.  processIncomingMessage for a native create event of a
\* chat bound to no channel returns at once: it leaves the users, the messages
\* and the mappings as they are, emits no change event and issues no outbound
\* operation.
Unbound(im) == ~\E c \in Channels : ChatColumn(c, im.platform) = im.chatId

C5_UntrackedIsNoOp ==
  [][ \A s \in Moved : (s.kind = "incoming" /\ Unbound(s.ev)) =>
        /\ s.pc = "done"
        /\ UNCHANGED << users, messages, message_mappings, feed, calls, native >> ]_vars

\* a create event of an untracked chat has been handled
C5_Witness ==
  \E t \in tasks :
    t.kind = "incoming" /\ Unbound(t.ev) /\ t.pc = "done" /\ t.result = "no_channel"

\* C6: duplicate create.  When the same native create event is delivered more
\* than once, the store holds one canonical message of that id, with the
\* content of the first insertion, and no delivery of it ends with the insert
\* of the message reported as failed.
C6_DuplicateCreate ==
  /\ \A a, b \in messages : a.id = b.id => a = b
  /\ \A t \in tasks :
       (t.kind = "incoming" /\ t.pc = "done" /\ Has(messages, t.ev.messageId)) =>
         /\ Row(messages, t.ev.messageId).content = t.ev.content
         /\ t.result # "insert_failed"

\* C7: upsertUser twice.  The upsert of an author the store does not hold
\* writes the users table once, inserting the row of that id, platform,
\* username and avatar; the upsert of an author stored with that same data
\* writes nothing and goes on with the stored user; nothing else writes users.
StoredAs(im) ==
  \E u \in users : /\ u.id = im.userId /\ u.platform = im.platform
                   /\ u.username = im.username /\ u.pfp = im.pfp

UserRow(im) ==
  [ id |-> im.userId, username |-> im.username, pfp |-> im.pfp, platform |-> im.platform ]

C7_UpsertUserTwice ==
  [][ /\ \A s \in Started :
           (s.kind = "incoming" /\ s.result \notin {"no_channel", "user_failed"}
            /\ StoredAs(s.ev)) =>
             s.pc = "insertMessage" /\ s.user = s.ev.userId /\ users' = users
      /\ \A t \in Left : \A s \in Moved :
           (t.pc = "insertUser" /\ SameInvocation(t, s) /\ s.pc = "insertMessage") =>
             /\ UserRow(t.ev) \notin users
             /\ users' = users \cup {UserRow(t.ev)}
             /\ s.user = t.ev.userId
      /\ users' # users =>
           \E t \in Left : t.pc \in {"insertUser", "updateUser"} /\ ~StoredAs(t.ev) ]_vars

\* an author has posted twice with the same username and avatar, and both
\* messages went through upsertUser and were inserted
C7_Witness ==
  \E a, b \in tasks :
    /\ a.kind = "incoming" /\ b.kind = "incoming" /\ a.ev # b.ev
    /\ UserRow(a.ev) = UserRow(b.ev)
    /\ a.result = "inserted" /\ b.result = "inserted"
    /\ StoredAs(a.ev)

\* C8: edit of the counterpart.  An invocation of handleMessageUpdate whose
\* lookup finds the mapping of the edited message issues exactly one outbound
\* operation, an edit: on the platform opposite to the platform of the
\* message's author, in the channel's chat there, of the native id the mapping
\* holds for that platform, with a text that opens with the badge of the
\* author's platform and ends with the new content.  No invocation of
\* handleMessageUpdate issues anything else, and none edits the original.
AuthorPlatform(id) == Row(users, Row(messages, id).user_id).platform

C8_EditCounterpart ==
  [][ /\ \A s \in Moved : (s.kind = "update" /\ s.pc = "edit") =>
           LET origin == AuthorPlatform(s.ev.id)
               channel == ChannelById(Row(messages, s.ev.id).channel_id)
           IN  /\ Cardinality(StoredMappings(s.ev.id)) = 1
               /\ s.dest = Other(origin)
               /\ s.chat = ChatColumn(channel, s.dest)
               /\ \A r \in StoredMappings(s.ev.id) : s.target = MappingId(r, s.dest)
               /\ s.target # s.ev.id
               /\ Head(s.text) = Badge(origin)
               /\ EndsWith(s.text, s.ev.content)
      /\ \A c \in Issued : c.kind = "update" =>
           /\ c.op = "edit"
           /\ c.messageId # c.ev.id
           /\ \E t \in Left :
                /\ SameInvocation(t, c) /\ t.pc = "edit"
                /\ c.platform = t.dest /\ c.chatId = t.chat
                /\ c.messageId = t.target /\ c.text = t.text
      /\ \A t \in Left : (t.kind = "update" /\ t.pc = "edit") =>
           /\ Cardinality(Issued) = 1
           /\ \E s \in Moved : SameInvocation(s, t) /\ s.pc = "done" ]_vars

\* the edit of a message has reached its relayed copy on the other platform
C8_Witness ==
  \E c \in calls : \E m \in native :
    /\ c.kind = "update" /\ c.op = "edit" /\ c.ok
    /\ m.bot /\ m.platform = c.platform /\ m.id = c.messageId /\ m.text = c.text
    /\ c.platform = Other(AuthorPlatform(c.ev.id))

\* C9: mapping first.  In every interleaving handleMessageUpdate and
\* handleMessageDeletion go on to the edit or the delete only when their
\* lookup finds a mapping row stored for the message, and only such an
\* invocation issues an edit or a delete; an invocation whose lookup finds no
\* row returns normally, and that step writes nothing to the store and issues
\* nothing.
LookedUp(s) ==
  \/ s.kind = "deletion" /\ s \in Started /\ s.result # "not_ready"
  \/ s.kind = "update" /\ \E t \in Left : SameInvocation(t, s) /\ t.pc = "findMapping"

C9_MappingFirst ==
  [][ /\ \A s \in Moved :
           (s.kind \in {"update", "deletion"} /\ s.pc \in {"edit", "delete"}) =>
             StoredMappings(s.ev.id) # {}
      /\ \A c \in Issued : c.op \in {"edit", "delete"} =>
           \E t \in Left : SameInvocation(t, c) /\ t.pc \in {"edit", "delete"}
      /\ \A s \in Moved : (LookedUp(s) /\ StoredMappings(s.ev.id) = {}) =>
           /\ s.pc = "done" /\ s.result = "no_mapping"
           /\ UNCHANGED << users, messages, message_mappings, calls, native >> ]_vars

\* an edit or a deletion was handled as a no-op while the relay of the same
\* message was in flight: sent, its mapping not yet stored
C9_Witness ==
  \E t, r \in tasks :
    /\ t.kind \in {"update", "deletion"} /\ t.pc = "done" /\ t.result = "no_mapping"
    /\ r.kind = "create" /\ r.pc = "map" /\ r.ev.id = t.ev.id
    /\ CallsOf(t) = {}

\* C10: delete of the counterpart.  An invocation of handleMessageDeletion
\* whose lookup finds the mapping issues exactly one outbound operation, a
\* delete of the native id the mapping holds for the platform opposite to the
\* message's, in that platform's chat, never of the original.  When the event
\* is delivered again after a delivery that found the mapping, the lookup
\* finds it again, and no copy is deleted twice: a delete that finds its target
\* gone changes nothing on the platform and the handler returns.
C10_DeleteCounterpart ==
  [][ /\ \A s \in Started : (s.kind = "deletion" /\ s.pc = "delete") =>
           /\ Cardinality(StoredMappings(s.ev.id)) = 1
           /\ s.dest = Other(s.ev.platform)
           /\ s.chat = PayloadChat(s.ev, s.dest)
           /\ \A r \in StoredMappings(s.ev.id) : s.target = MappingId(r, s.dest)
           /\ s.target # s.ev.id
      /\ \A c \in Issued : c.kind = "deletion" =>
           /\ c.op = "delete"
           /\ \E t \in Left :
                /\ SameInvocation(t, c) /\ t.pc = "delete"
                /\ c.platform = t.dest /\ c.chatId = t.chat /\ c.messageId = t.target
           /\ c.ok => ~\E d \in calls :
                         /\ d.op = "delete" /\ d.ok /\ d.platform = c.platform
                         /\ d.chatId = c.chatId /\ d.messageId = c.messageId
           /\ ~c.ok => native' = native
      /\ \A t \in Left : (t.kind = "deletion" /\ t.pc = "delete") =>
           /\ Cardinality(Issued) = 1
           /\ \E s \in Moved : /\ SameInvocation(s, t) /\ s.pc = "done"
                               /\ s.result \in {"deleted", "delete_failed"}
      /\ \A s \in Started :
           (/\ s.kind = "deletion" /\ s.n > 1
            /\ \E f \in tasks : /\ f.kind = "deletion" /\ f.ev = s.ev /\ f.n < s.n
                                /\ (f.pc = "delete" \/ f.result \in {"deleted", "delete_failed"})) =>
             s.pc = "delete" ]_vars

\* a deletion was delivered twice: one delivery deleted the copy, the other
\* found the mapping, found the copy gone and returned
C10_Witness ==
  \E a, b \in tasks :
    /\ a.kind = "deletion" /\ b.kind = "deletion" /\ a.ev = b.ev /\ a.n # b.n
    /\ a.result = "deleted" /\ b.result = "delete_failed"
    /\ \E c \in CallsOf(a) : \E m \in native :
         c.ok /\ m.id = c.messageId /\ m.platform = c.platform /\ m.bot /\ m.deleted
    /\ Cardinality(StoredMappings(a.ev.id)) = 1

C13_DeletedStaysDeleted ==
  [][ \A m \in messages :
        \E k \in messages' : /\ k.id = m.id
                             /\ m.deleted_at # 0 => k.deleted_at # 0 ]_vars

\* a message that was soft-deleted has been edited afterwards and is still
\* marked deleted
C13_Witness ==
  \E m \in messages : m.deleted_at # 0 /\ m.modified_at > m.deleted_at

\* C14: failed send.  The step in which the send of a relay fails writes no
\* mapping row and leaves the canonical messages and the users as they are, and
\* the invocation returns there: it never comes to write a mapping.  When the
\* create event is delivered again after such a failure, the new invocation
\* goes on to the send again.
C14_FailedSendLeavesNoTrace ==
  [][ /\ \A c \in Issued : (c.op = "send" /\ ~c.ok) =>
           /\ UNCHANGED << users, messages, message_mappings >>
           /\ \E s \in Moved : /\ SameInvocation(s, c) /\ s.pc = "done"
                               /\ s.result = "send_failed"
      /\ \A t \in Left : t.pc # "done"
      /\ \A s \in Started :
           (/\ s.kind = "create" /\ s.n > 1
            /\ \E f \in tasks : /\ f.kind = "create" /\ f.ev = s.ev
                                /\ f.result = "send_failed") =>
             s.pc = "send" ]_vars

\* the send of a message failed and left no mapping; the create event was
\* delivered again and that dispatch sent the copy and stored the mapping
C14_Witness ==
  \E a, b \in tasks :
    /\ a.kind = "create" /\ b.kind = "create" /\ a.ev = b.ev /\ a.n < b.n
    /\ a.result = "send_failed" /\ b.result = "relayed"
    /\ \E c \in CallsOf(a) : ~c.ok
    /\ \E c \in CallsOf(b) : c.ok /\ StoredMappings(a.ev.id) # {}
    /\ Has(messages, a.ev.id)

\* C15: failures are isolated.  No failure escapes a handler: a step in which
\* a store or platform call fails while an event is processed ends that
\* invocation with a logged result, and leaves the bots, the readiness flag,
\* the store, the platforms' messages and the pending events as they are (a
\* delivery takes its own event off its queue).  The process never ends on an
\* escaped error, and each listener takes its next pending event whenever its
\* bot runs and a handler can start.
FailureResults ==
  { "user_failed", "insert_failed", "not_found", "update_failed", "no_message",
    "no_mapping", "send_failed", "unmapped", "edit_failed", "delete_failed" }

Fails ==
  /\ telegramBot # "null"
  /\ failures' # failures \/ \E c \in Issued : ~c.ok

QueueKept(q, r) == r = q \/ (q # <<>> /\ r = Tail(q))

C15_Isolated ==
  [][ Fails =>
        /\ UNCHANGED << isReady, telegramBot, discordBot, users, messages,
                        message_mappings, native >>
        /\ \A p \in Platforms : QueueKept(inbox[p], inbox'[p])
        /\ QueueKept(feed, feed')
        /\ Cardinality(Moved) = 1
        /\ \A s \in Moved : s.pc = "done" /\ s.result \in FailureResults ]_vars

C15_ListenersStay ==
  /\ ~Crashed
  /\ \A p \in Platforms :
       (BotOf(p) = "running" /\ inbox[p] # <<>> /\ CanSpawn) =>
         ENABLED DeliverNative(p, FALSE)
  /\ (telegramBot # "null" /\ feed # <<>> /\ CanSpawn) => ENABLED DeliverFeed(FALSE)

C15_FailureIsolation == []C15_ListenersStay /\ C15_Isolated

\* the insert of one message failed and the message was dropped, and a message
\* posted after it on the same platform was ingested and relayed
C15_Witness ==
  \E a, b \in tasks :
    /\ a.kind = "incoming" /\ a.result \in FailureResults
    /\ ~Has(messages, a.ev.messageId)
    /\ b.kind = "create" /\ b.result = "relayed"
    /\ b.ev.id > a.ev.messageId
    /\ \E m \in native : m.id = b.ev.id /\ m.platform = a.ev.platform /\ ~m.bot
    /\ failures > 0

\* C16: routing.  Every delivery of a change event starts exactly one handler,
\* on the event's new record: handleMessage for an insert, handleMessageDeletion
\* for an update whose new record has deleted_at set and whose old record has
\* not, handleMessageUpdate for every other update; and a change-feed handler
\* starts in no other way.
FeedKinds == {"create", "update", "deletion"}

Routed(e) ==
  IF e.op = "INSERT" THEN "create"
  ELSE IF e.new.deleted_at # 0 /\ e.old.deleted_at = 0 THEN "deletion" ELSE "update"

C16_Routing ==
  [][ /\ \A s \in Started : s.kind \in FeedKinds =>
           /\ feed # <<>>
           /\ s.kind = Routed(Head(feed)) /\ s.ev = Head(feed).new
           /\ Cardinality(Started) = 1
      /\ (feed # <<>> /\ feed' = Tail(feed)) =>
           \E s \in Started : s.kind \in FeedKinds ]_vars

\* each of the three routes was taken; the update routed to
\* handleMessageUpdate was one of a message already deleted
C16_Witness ==
  /\ \E t \in tasks : t.kind = "create"
  /\ \E t \in tasks : t.kind = "deletion" /\ t.ev.deleted_at # 0
  /\ \E t \in tasks : t.kind = "update" /\ t.ev.deleted_at # 0

\* C17: ingestion stays inside.  A step of processIncomingMessage,
\* handlePlatformMessageEdit or handlePlatformMessageDelete issues no outbound
\* operation, writes no mapping and changes no message on a platform; every
\* outbound operation is issued by a handler of a change event, and only
\* handleMessage writes mappings.
IngestKinds == {"incoming", "platformEdit", "platformDelete"}

C17_IngestionStaysInside ==
  [][ /\ (\E s \in Moved : s.kind \in IngestKinds) =>
           UNCHANGED << message_mappings, calls, native >>
      /\ \A c \in Issued :
           c.kind \in FeedKinds /\ \E t \in Left : SameInvocation(t, c)
      /\ message_mappings' # message_mappings => \E t \in Left : t.kind = "create" ]_vars

\* a message was ingested, edited and deleted natively: the three ingestion
\* handlers wrote the store, and every outbound operation so far belongs to a
\* change event
C17_Witness ==
  /\ \E t \in tasks : t.kind = "incoming" /\ t.result = "inserted"
  /\ \E t \in tasks : t.kind = "platformEdit" /\ t.result = "updated"
  /\ \E t \in tasks : t.kind = "platformDelete" /\ t.result = "updated"
  /\ \E c \in calls : c.op = "send"
  /\ \E c \in calls : c.op = "edit"
  /\ \E c \in calls : c.op = "delete"

\* C18: ingestion in order.  Every stored message references a stored user and
\* a channel of the channels table.  A message is inserted only by an
\* invocation that has resolved the channel its chat is bound to and holds a
\* stored user, and the row references these two.  An invocation whose channel
\* lookup finds nothing or whose reconciliation fails returns there, without
\* inserting, and a returned invocation takes no further step.
C18_Referenced ==
  \A m \in messages :
    Has(users, m.user_id) /\ \E c \in Channels : c.id = m.channel_id

C18_InOrder ==
  [][ /\ \A m \in messages' \ messages : Has(messages, m.id) \/
           \E t \in Left :
             /\ t.kind = "incoming" /\ t.pc = "insertMessage"
             /\ t.ev.messageId = m.id
             /\ t.channel # NULL /\ m.channel_id = t.channel
             /\ ChatColumn(ChannelById(t.channel), t.ev.platform) = t.ev.chatId
             /\ t.user # NULL /\ m.user_id = t.user /\ Has(users, t.user)
      /\ \A s \in Moved :
           (s.kind = "incoming" /\ (failures' # failures \/ Unbound(s.ev))) =>
             /\ s.pc = "done" /\ messages' = messages
             /\ s.result \in {"no_channel", "user_failed", "insert_failed"}
      /\ \A t \in Left : t.pc # "done" ]_vars

C18_IngestionInOrder == []C18_Referenced /\ C18_InOrder

\* the reconciliation of an author failed on the store and the message was
\* not inserted, while another message went the whole way
C18_Witness ==
  \E a, b \in tasks :
    /\ a.kind = "incoming" /\ a.result = "user_failed"
    /\ ~Has(messages, a.ev.messageId)
    /\ b.kind = "incoming" /\ b.result = "inserted"
    /\ Has(messages, b.ev.messageId)
    /\ Has(users, Row(messages, b.ev.messageId).user_id)

\* C19: identity per platform.  The platform of a stored message's author is
\* the platform the message was sent on: an account is reconciled to the user
\* of its own id and its own platform, also when an account of the other
\* platform carries the same id.
C19_AuthorOnOwnPlatform ==
  \A m \in messages : \A n \in native :
    n.id = m.id => AuthorPlatform(m.id) = n.platform

\* C20: drift is reconciled.  When upsertUser returns a user for an inbound
\* message, the store holds one user of that id, with the username and the
\* avatar of the message, and that user is the one returned; a user that was
\* stored before keeps its platform, and no second record is written for it.
C20_DriftReconciled ==
  [][ \A s \in Moved : (s.kind = "incoming" /\ s.pc = "insertMessage") =>
        LET rows == { u \in users' : u.id = s.ev.userId }
        IN  /\ Cardinality(rows) = 1
            /\ s.user = s.ev.userId
            /\ \A u \in rows :
                 /\ u.username = s.ev.username /\ u.pfp = s.ev.pfp
                 /\ \A o \in users : o.id = u.id => o.platform = u.platform
            /\ Cardinality(users') =
                 Cardinality(users) + (IF Has(users, s.ev.userId) THEN 0 ELSE 1) ]_vars

\* an author posted under one username and then under another: the stored
\* user carries the second, and both messages are stored under that one user
C20_Witness ==
  \E a, b \in tasks :
    /\ a.kind = "incoming" /\ b.kind = "incoming"
    /\ a.result = "inserted" /\ b.result = "inserted"
    /\ a.ev.userId = b.ev.userId /\ a.ev.platform = b.ev.platform
    /\ a.ev.messageId < b.ev.messageId
    /\ a.ev.username # b.ev.username
    /\ Cardinality({ u \in users : u.id = b.ev.userId }) = 1
    /\ Row(users, b.ev.userId).username = b.ev.username
    /\ Row(messages, a.ev.messageId).user_id = Row(messages, b.ev.messageId).user_id

\* C21: modified_at follows the content.  A step changes the modified_at of a
\* stored message only when it changes the message's content: a native edit
\* that carries the stored content leaves modified_at as it was, and so does a
\* soft delete.
C21_ModifiedOnlyOnChange ==
  [][ \A m \in messages : \A k \in messages' :
        (k.id = m.id /\ k.modified_at # m.modified_at) => k.content # m.content ]_vars

\* C22: what a mapping row pairs.  A row is written to message_mappings only
\* by createMessageMapping of a relay whose send succeeded before: the row
\* holds the canonical message's id in the column of the platform the change
\* event names as the message's, and in the other column the native id that
\* the send to the other platform returned.  Every stored row belongs to a
\* stored canonical message and to a copy that was sent.
SentCopy(id, p) ==
  \E c \in calls : \E m \in native :
    /\ c.kind = "create" /\ c.op = "send" /\ c.ok
    /\ c.platform = p /\ c.messageId = id
    /\ m.platform = p /\ m.id = id /\ m.bot

C22_RowsBacked ==
  \A r \in message_mappings : \E p \in Platforms :
    /\ Has(messages, MappingId(r, p))
    /\ SentCopy(MappingId(r, Other(p)), Other(p))

C22_RowsWritten ==
  [][ \A r \in message_mappings' \ message_mappings :
        \E t \in Left :
          /\ t.kind = "create" /\ t.pc = "map"
          /\ Has(messages, t.ev.id)
          /\ MappingId(r, t.ev.platform) = t.ev.id
          /\ MappingId(r, Other(t.ev.platform)) = t.sent
          /\ t.dest = Other(t.ev.platform)
          /\ SentCopy(t.sent, t.dest)
          /\ \E c \in CallsOf(t) : c.op = "send" /\ c.ok /\ c.messageId = t.sent ]_vars

C22_MappingPairs == []C22_RowsBacked /\ C22_RowsWritten

\* a Telegram message and a Discord message were relayed, and each has its row
C22_Witness ==
  \E r1, r2 \in message_mappings :
    /\ \E t \in tasks : /\ t.kind = "create" /\ t.result = "relayed"
                        /\ t.ev.platform = "telegram" /\ r1.telegram_id = t.ev.id
                        /\ SentCopy(r1.discord_id, "discord")
    /\ \E t \in tasks : /\ t.kind = "create" /\ t.result = "relayed"
                        /\ t.ev.platform = "discord" /\ r2.discord_id = t.ev.id
                        /\ SentCopy(r2.telegram_id, "telegram")

\* C23: nothing stays relayed and unmapped.  Once no handler is in flight and
\* no change event is pending, with or without a shutdown, every copy that the
\* relay sent to a platform is referred to by a mapping row, also when a
\* mapping write has failed.
C23_NoCopyUnmapped ==
  (Active = {} /\ feed = <<>>) =>
    \A m \in native : m.bot =>
      \E r \in message_mappings : MappingId(r, m.platform) = m.id

\* C24: the formatter escapes.  Whatever the username and the content, a text
\* the relay sends or edits in holds the user's markup characters in escaped
\* form only.  On Telegram no "<" or ">" of the user stands in the text,
\* every "&" opens one of the entities the escaping writes, and reading the
\* entities back gives the prefix with the username and the content as they
\* were.  On Discord every markdown character of the user follows a backslash.
MarkdownControl == {"*", "_"}

Entities ==
  { [ text |-> <<"&", "a", "m", "p", ";">>, char |-> "&" ],
    [ text |-> <<"&", "l", "t", ";">>, char |-> "<" ],
    [ text |-> <<"&", "g", "t", ";">>, char |-> ">" ] }

StartsWith(text, head) ==
  Len(text) >= Len(head) /\ SubSeq(text, 1, Len(head)) = head

RECURSIVE HtmlUnescape(_)
HtmlUnescape(text) ==
  IF text = <<>> THEN <<>>
  ELSE IF \E e \in Entities : StartsWith(text, e.text)
       THEN LET e == CHOOSE e \in Entities : StartsWith(text, e.text)
            IN  <<e.char>> \o HtmlUnescape(SubSeq(text, Len(e.text) + 1, Len(text)))
       ELSE <<Head(text)>> \o HtmlUnescape(Tail(text))

TelegramSafe(text) ==
  \A i \in 1..Len(text) :
    /\ text[i] \notin {"<", ">"}
    /\ text[i] = "&" =>
         \E e \in Entities : StartsWith(SubSeq(text, i, Len(text)), e.text)

DiscordSafe(text) ==
  \A i \in 1..Len(text) :
    text[i] \in MarkdownControl => (i > 1 /\ text[i - 1] = "\\")

C24_FormatterEscapes ==
  \A c \in calls : c.op \in {"send", "edit"} =>
    /\ c.platform = "telegram" =>
         /\ TelegramSafe(c.text)
         /\ HtmlUnescape(c.text) =
              << Badge(c.ev.platform), " ", TypeEmoji(c.ev.type), " ", "<b>" >>
                \o c.ev.username \o << "</b>", "\n" >> \o c.ev.content
    /\ c.platform = "discord" => DiscordSafe(c.text)

\* C25: readiness gate.  A change-feed handler invoked while isReady is false
\* (the initialisation has not completed, or the messenger was shut down)
\* returns at once: that step reads and writes nothing in the store, since no
\* store call is made that could fail, writes no mapping and issues no send,
\* edit or delete.  A handler returns as not ready in no other case.
C25_ReadinessGate ==
  [][ \A s \in Started : s.kind \in FeedKinds =>
        /\ ~isReady =>
             /\ s.pc = "done" /\ s.result = "not_ready"
             /\ UNCHANGED << users, messages, message_mappings, calls, native,
                             failures, inbox >>
        /\ s.result = "not_ready" => ~isReady ]_vars

\* after a shutdown the create event and a later change event of a stored
\* message were delivered, and both handlers returned without a call
C25_Witness ==
  \E a, b \in tasks :
    /\ telegramBot = "stopped" /\ ~isReady
    /\ a.kind = "create" /\ a.result = "not_ready"
    /\ b.kind \in {"update", "deletion"} /\ b.result = "not_ready"
    /\ Has(messages, a.ev.id) /\ b.ev.id = a.ev.id
    /\ CallsOf(a) = {} /\ CallsOf(b) = {}
    /\ message_mappings = {}

\* C26: foreign edits and deletes change nothing.  A step changes a stored
\* message only as the update of a native edit or delete event that carries
\* the message's id and comes from the chat that the message's channel binds
\* on the event's platform.  An event whose id no stored message has, or that
\* comes from another chat, ends its handler at the lookup; that step leaves
\* the store as it is and emits no change event, and no such event ever comes
\* to the update.
OwnChat(e) ==
  /\ Has(messages, e.messageId)
  /\ ChatColumn(ChannelById(Row(messages, e.messageId).channel_id), e.platform) = e.chatId

PlatformChangeKinds == {"platformEdit", "platformDelete"}

C26_ForeignChangeIsNoOp ==
  [][ /\ \A m \in messages : m \notin messages' =>
           \E t \in Left :
             /\ t.kind \in PlatformChangeKinds /\ t.pc = "update"
             /\ t.ev.messageId = m.id /\ OwnChat(t.ev)
      /\ \A s \in Started : (s.kind \in PlatformChangeKinds /\ ~OwnChat(s.ev)) =>
           /\ s.pc = "done" /\ s.result \in {"not_found", "wrong_chat"}
           /\ UNCHANGED << users, messages, message_mappings, feed >>
      /\ \A s \in Moved : (s.kind \in PlatformChangeKinds /\ s.pc = "update") =>
           OwnChat(s.ev) ]_vars

\* a message was edited in a chat other than the one of the stored message
\* of the same id: the handler returned and the stored message is as it was
C26_Witness ==
  \E t \in tasks :
    /\ t.kind = "platformEdit" /\ t.result = "wrong_chat"
    /\ Has(messages, t.ev.messageId)
    /\ Row(messages, t.ev.messageId).content # t.ev.content
    /\ Row(messages, t.ev.messageId).modified_at = 0
    /\ \E n \in native : /\ n.id = t.ev.messageId /\ n.chat = t.ev.chatId
                         /\ n.platform = t.ev.platform /\ n.text = t.ev.content

\* C27: no message is lost to the race of two reconciliations.  When two
\* create events of one account, in chats bound to channels, have both been
\* processed and no store call has failed, the store holds one user for the
\* account and both messages.
C27_BothPersisted ==
  \A a, b \in tasks :
    (/\ a.kind = "incoming" /\ b.kind = "incoming"
     /\ a.ev.messageId # b.ev.messageId
     /\ a.ev.userId = b.ev.userId /\ a.ev.platform = b.ev.platform
     /\ ~Unbound(a.ev) /\ ~Unbound(b.ev)
     /\ a.pc = "done" /\ b.pc = "done"
     /\ failures = 0) =>
      /\ Cardinality({ u \in users : u.id = a.ev.userId }) = 1
      /\ Has(messages, a.ev.messageId) /\ Has(messages, b.ev.messageId)

\* C28: eventual consistency.  In a run in which no call has failed, no event
\* was delivered twice and the messenger is ready, once every native event
\* and every change event has been delivered and every handler has returned,
\* the copy of each relayed message of the two-way channel carries the
\* message's stored content if the message is not deleted, and is deleted if
\* the message is soft-deleted.
Settled ==
  /\ isReady /\ failures = 0 /\ redelivered = 0
  /\ Active = {} /\ feed = <<>>
  /\ \A p \in Platforms : inbox[p] = <<>>

CopiesOf(m) ==
  { n \in native :
      \E c \in calls : /\ c.kind = "create" /\ c.op = "send" /\ c.ok /\ c.ev.id = m.id
                       /\ n.bot /\ n.platform = c.platform /\ n.chat = c.chatId
                       /\ n.id = c.messageId }

C28_EventuallyConsistent ==
  Settled =>
    \A m \in messages : ChannelById(m.channel_id).type = "two-ways" =>
      \A n \in CopiesOf(m) :
        IF m.deleted_at = 0
        THEN ~n.deleted /\ EndsWith(n.text, m.content)
        ELSE n.deleted

====
